---- MODULE Spec2Model ----
(***************************************************************************)
(* State-machine model of the two ETL programs of the repository:          *)
(*   pipeline.py      ETLPipeline      insider_transactions (upsert)        *)
(*   secondScript.py  StockMarketETL   stock_metadata, stock_movers         *)
(*                                     (delete-then-insert per category)    *)
(* A behaviour is a sequence of runs of main() against one database.        *)
(***************************************************************************)
EXTENDS Integers, Sequences, FiniteSets, TLC

(***************************************************************************)
(* Bounds of the model.                                                     *)
(***************************************************************************)
MaxRuns == 2
MaxEntries == 2
MaxItems == 2
MaxStr == 3

(***************************************************************************)
(* Python / JSON values.  A string is a tuple of one-character strings, so  *)
(* that parsing is a computation on its characters.                         *)
(***************************************************************************)
None == [t |-> "none"]
Str(cs) == [t |-> "str", s |-> cs]
Float(x) == [t |-> "float", n |-> x]
EmptyStr == Str(<< >>)

\* Floats are fixed-point: the integer n stands for n / Scale.
Scale == 10000

IsNone(v) == v.t = "none"
IsStr(v) == v.t = "str"
IsFloat(v) == v.t = "float"

\* A JSON integer beyond the range of a double (json gives it as a Python int).
HugeInt == [t |-> "int", huge |-> TRUE]

\* Python truthiness of a value (the test of "if value" / "if not value").
Truthy(v) ==
    CASE v.t = "none" -> FALSE
      [] v.t = "str" -> v.s # << >>
      [] v.t = "float" -> v.n # 0
      [] v.t = "dict" -> DOMAIN v.d # {}
      [] OTHER -> TRUE

\* dict.get(key, default): the default only when the key is absent.
Get(d, k, default) == IF k \in DOMAIN d THEN d[k] ELSE default

Digits == {"0", "1", "2", "3", "4", "5", "6", "7", "8", "9"}

DigitVal(c) ==
    CASE c = "0" -> 0 [] c = "1" -> 1 [] c = "2" -> 2 [] c = "3" -> 3
      [] c = "4" -> 4 [] c = "5" -> 5 [] c = "6" -> 6 [] c = "7" -> 7
      [] c = "8" -> 8 [] c = "9" -> 9

AllDigits(cs) == \A i \in 1..Len(cs) : cs[i] \in Digits

RECURSIVE DecVal(_)
DecVal(cs) ==
    IF cs = << >> THEN 0
    ELSE 10 * DecVal(SubSeq(cs, 1, Len(cs) - 1)) + DigitVal(cs[Len(cs)])

RECURSIVE Pow10(_)
Pow10(k) == IF k = 0 THEN 1 ELSE 10 * Pow10(k - 1)

\* Index of the first occurrence of character c in cs, 0 when absent.
RECURSIVE IndexFrom(_, _, _)
IndexFrom(cs, c, i) ==
    IF i > Len(cs) THEN 0
    ELSE IF cs[i] = c THEN i
    ELSE IndexFrom(cs, c, i + 1)

IndexOf(cs, c) == IndexFrom(cs, c, 1)

\* str.strip(): leading and trailing blanks removed (float() strips its argument).
RECURSIVE LStrip(_)
LStrip(cs) == IF cs # << >> /\ Head(cs) = " " THEN LStrip(Tail(cs)) ELSE cs

RECURSIVE RStrip(_)
RStrip(cs) ==
    IF cs # << >> /\ cs[Len(cs)] = " " THEN RStrip(SubSeq(cs, 1, Len(cs) - 1)) ELSE cs

Strip(cs) == LStrip(RStrip(cs))

\* str.replace(c, ''): every occurrence of the character removed.
RECURSIVE RemoveChar(_, _)
RemoveChar(cs, c) ==
    IF cs = << >> THEN << >>
    ELSE IF Head(cs) = c THEN RemoveChar(Tail(cs), c)
    ELSE <<Head(cs)>> \o RemoveChar(Tail(cs), c)

(***************************************************************************)
(* float(str): [sign] digits [. digits] | [sign] . digits, blanks stripped. *)
(* The result is [ok |-> TRUE, n |-> fixed point] or [ok |-> FALSE]         *)
(* (ValueError).  Fraction digits beyond the fixed point are cut.           *)
(***************************************************************************)
FracVal(cs) ==
    LET k == IF Len(cs) > 4 THEN 4 ELSE Len(cs)
    IN DecVal(SubSeq(cs, 1, k)) * Pow10(4 - k)

ParseUnsigned(cs) ==
    LET dot == IndexOf(cs, ".")
        ip == IF dot = 0 THEN cs ELSE SubSeq(cs, 1, dot - 1)
        fp == IF dot = 0 THEN << >> ELSE SubSeq(cs, dot + 1, Len(cs))
    IN IF AllDigits(ip) /\ AllDigits(fp) /\ (ip # << >> \/ fp # << >>)
       THEN [ok |-> TRUE, n |-> DecVal(ip) * Scale + FracVal(fp)]
       ELSE [ok |-> FALSE]

ParseFloat(cs0) ==
    LET cs == Strip(cs0)
    IN IF cs = << >> THEN [ok |-> FALSE]
       ELSE IF Head(cs) = "-"
            THEN LET r == ParseUnsigned(Tail(cs))
                 IN IF r.ok THEN [ok |-> TRUE, n |-> 0 - r.n] ELSE r
       ELSE IF Head(cs) = "+" THEN ParseUnsigned(Tail(cs))
       ELSE ParseUnsigned(cs)

\* What a call gives: a value returned, or an exception raised.
Ret(v) == [r |-> "ret", v |-> v]
Raise(exc) == [r |-> "raise", exc |-> exc]

\* float(value): a number as it is, a string parsed (ValueError when it is not a
\* number), an integer too large for a double OverflowError, anything else
\* (None, a dict) TypeError.
FloatOfStr(p) == IF p.ok THEN Ret(Float(p.n)) ELSE Raise("ValueError")

PyFloat(value) ==
    CASE value.t = "float" -> Ret(value)
      [] value.t = "str" -> FloatOfStr(ParseFloat(value.s))
      [] value.t = "int" -> Raise("OverflowError")
      [] OTHER -> Raise("TypeError")

\* except (ValueError, TypeError)
Caught == {"ValueError", "TypeError"}

\* _safe_float(value, default): float(value) if value else default; ValueError
\* and TypeError give the default, any other exception leaves the method.
OrDefault(f, default) ==
    IF f.r = "raise" /\ f.exc \in Caught THEN Ret(default) ELSE f

safe_float(value, default) ==
    IF ~Truthy(value) THEN Ret(default) ELSE OrDefault(PyFloat(value), default)

(***************************************************************************)
(* Dates.  datetime.strptime(s, '%Y-%m-%d'): a 4-digit year, a 1-2 digit    *)
(* month 1..12, a 1-2 digit day valid in that month, '-' between them.      *)
(* A datetime is [day |-> proleptic ordinal, tod |-> time of day].          *)
(***************************************************************************)
IsLeap(y) == (y % 4 = 0 /\ y % 100 # 0) \/ y % 400 = 0

DaysInMonth(y, m) ==
    CASE m \in {1, 3, 5, 7, 8, 10, 12} -> 31
      [] m \in {4, 6, 9, 11} -> 30
      [] OTHER -> IF IsLeap(y) THEN 29 ELSE 28

RECURSIVE DaysBeforeMonth(_, _)
DaysBeforeMonth(y, m) ==
    IF m = 1 THEN 0 ELSE DaysBeforeMonth(y, m - 1) + DaysInMonth(y, m - 1)

\* date.toordinal()
Ordinal(y, m, d) ==
    LET p == y - 1
    IN 365 * p + (p \div 4) - (p \div 100) + (p \div 400) + DaysBeforeMonth(y, m) + d

ParseDate(cs) ==
    LET d1 == IndexOf(cs, "-")
        rest == IF d1 = 0 THEN << >> ELSE SubSeq(cs, d1 + 1, Len(cs))
        d2 == IndexOf(rest, "-")
        ys == IF d1 = 0 THEN << >> ELSE SubSeq(cs, 1, d1 - 1)
        ms == IF d2 = 0 THEN << >> ELSE SubSeq(rest, 1, d2 - 1)
        ds == IF d2 = 0 THEN << >> ELSE SubSeq(rest, d2 + 1, Len(rest))
        shaped == /\ d1 # 0 /\ d2 # 0
                  /\ Len(ys) = 4 /\ Len(ms) \in {1, 2} /\ Len(ds) \in {1, 2}
                  /\ AllDigits(ys) /\ AllDigits(ms) /\ AllDigits(ds)
        y == DecVal(ys)
        m == DecVal(ms)
        d == DecVal(ds)
    IN IF shaped /\ y >= 1 /\ m \in 1..12 /\ d >= 1 /\ d <= DaysInMonth(y, m)
       THEN [ok |-> TRUE, y |-> y, m |-> m, d |-> d]
       ELSE [ok |-> FALSE]

CUTOFF_DAYS == 2 * 365

\* datetime.now() - timedelta(days=CUTOFF_DAYS)
CutoffDate(now) == [day |-> now.day - CUTOFF_DAYS, tod |-> now.tod]

\* trans_date < cutoff_date, trans_date being midnight of its day
BeforeCutoff(day, cutoff) ==
    day < cutoff.day \/ (day = cutoff.day /\ 0 < cutoff.tod)

(***************************************************************************)
(* ETLPipeline._process_transaction.  The result is                         *)
(*   [r |-> "rec", rec |-> record]   a processed record                     *)
(*   [r |-> "none"]                  the entry is dropped (returns None)    *)
(*   [r |-> "raise"]                 an exception leaves the method         *)
(*                                   (strptime of a non-string: TypeError;  *)
(*                                   _safe_float: OverflowError)            *)
(***************************************************************************)
TransactionRecord(transaction, symbol, shares, price) ==
    IF shares.r = "raise" \/ price.r = "raise" THEN [r |-> "raise"]
    ELSE [r |-> "rec",
          rec |-> [symbol |-> symbol,
                   date |-> transaction["transaction_date"],
                   executive |-> Get(transaction, "executive", EmptyStr),
                   title |-> Get(transaction, "executive_title", EmptyStr),
                   type |-> Get(transaction, "security_type", EmptyStr),
                   transaction |-> Get(transaction, "acquisition_or_disposal", EmptyStr),
                   shares |-> shares.v,
                   price |-> price.v]]

process_transaction(transaction, symbol, cutoff_date) ==
    IF ~Truthy(Get(transaction, "transaction_date", None)) THEN [r |-> "none"]
    ELSE IF ~IsStr(transaction["transaction_date"]) THEN [r |-> "raise"]
    ELSE LET pd == ParseDate(transaction["transaction_date"].s)
         IN IF ~pd.ok THEN [r |-> "none"]
            ELSE IF BeforeCutoff(Ordinal(pd.y, pd.m, pd.d), cutoff_date) THEN [r |-> "none"]
            ELSE TransactionRecord(transaction, symbol,
                     safe_float(Get(transaction, "shares", None), Float(0)),
                     safe_float(Get(transaction, "share_price", None), Float(0)))

(***************************************************************************)
(* StockMarketETL._process_item: any exception (here .replace on a value    *)
(* that is not a string) is caught and the item is dropped.                 *)
(***************************************************************************)
ItemRecord(item, category, last_updated, price, change_amount, pct, volume) ==
    IF \E f \in {price, change_amount, pct, volume} : f.r = "raise" THEN [r |-> "none"]
    ELSE [r |-> "rec",
          rec |-> [ticker |-> Get(item, "ticker", EmptyStr),
                   price |-> price.v,
                   change_amount |-> change_amount.v,
                   change_percentage |-> pct.v,
                   volume |-> volume.v,
                   category |-> category,
                   last_updated |-> last_updated]]

process_item(item, category, last_updated) ==
    IF ~IsStr(Get(item, "change_percentage", EmptyStr)) THEN [r |-> "none"]
    ELSE ItemRecord(item, category, last_updated,
             safe_float(Get(item, "price", None), Float(0)),
             safe_float(Get(item, "change_amount", None), Float(0)),
             safe_float(Str(RemoveChar(Get(item, "change_percentage", EmptyStr).s, "%")),
                        Float(0)),
             safe_float(Get(item, "volume", None), Float(0)))

(***************************************************************************)
(* The PostgreSQL store.  A database state is                               *)
(*   [tables  |-> the tables that exist,                                    *)
(*    insider |-> rows of insider_transactions,                             *)
(*    meta    |-> rows of stock_metadata,                                   *)
(*    movers  |-> rows of stock_movers]                                     *)
(* A table is a set of rows.  The SERIAL id, which the programs never read  *)
(* or write, is kept only as far as it tells apart rows equal in every      *)
(* other column: such a row carries its rank dup among them.  Rows of       *)
(* stock_metadata and stock_movers are unique on NOT NULL columns and need  *)
(* none.  A statement gives                                                 *)
(*   [ok |-> TRUE, view |-> new state] or [ok |-> FALSE] (psycopg2.Error).  *)
(***************************************************************************)
EmptyDb == [tables |-> {}, insider |-> {}, meta |-> {}, movers |-> {}]

Abs(n) == IF n < 0 THEN 0 - n ELSE n

\* A float stored in a DECIMAL(p, places) column: rounded half away from zero.
Round(n, places) ==
    LET unit == Scale \div Pow10(places)
        q == (Abs(n) + unit \div 2) \div unit
    IN IF n < 0 THEN 0 - q * unit ELSE q * unit

\* DECIMAL(10, places) holds fewer than 10 - places integer digits.
Fits(n, places) == Abs(Round(n, places)) \div Scale < Pow10(10 - places)

\* A Python value as an SQL text value: None is NULL.
IsNull(v) == IsNone(v)

\* CREATE TABLE IF NOT EXISTS
CreateTable(view, name) == [view EXCEPT !.tables = @ \cup {name}]

\* The row that INSERT INTO insider_transactions builds from a record: date is
\* cast to DATE, shares and price to DECIMAL(10, 2).
InsiderRow(rec) ==
    LET pd == ParseDate(rec.date.s)
    IN [dup |-> 1,
        symbol |-> rec.symbol,
        date |-> <<pd.y, pd.m, pd.d>>,
        executive |-> rec.executive,
        title |-> rec.title,
        type |-> rec.type,
        transaction |-> rec.transaction,
        shares |-> Round(rec.shares.n, 2),
        price |-> Round(rec.price.n, 2)]

\* UNIQUE (symbol, date, executive, shares, price)
InsiderKey(row) == <<row.symbol, row.date, row.executive, row.shares, row.price>>

\* Two rows conflict on the unique index when their keys are equal and no key
\* column is NULL (PostgreSQL: NULLs are distinct in a unique index).
InsiderConflict(a, b) ==
    /\ InsiderKey(a) = InsiderKey(b)
    /\ ~IsNull(a.executive)

\* Column constraints of insider_transactions.
InsiderValid(rec) ==
    /\ IsStr(rec.symbol) /\ IsStr(rec.date) /\ ParseDate(rec.date.s).ok
    /\ IsFloat(rec.shares) /\ Fits(rec.shares.n, 2)
    /\ IsFloat(rec.price) /\ Fits(rec.price.n, 2)

\* INSERT ... ON CONFLICT (symbol, date, executive, shares, price) DO UPDATE SET
\* title, type, transaction = EXCLUDED.*
UpsertInsider(view, rec) ==
    IF "insider_transactions" \notin view.tables \/ ~InsiderValid(rec)
    THEN [ok |-> FALSE]
    ELSE LET new == InsiderRow(rec)
             hit == {r \in view.insider : InsiderConflict(r, new)}
             upd(r) == [r EXCEPT !.title = new.title, !.type = new.type,
                                 !.transaction = new.transaction]
             same == {r \in view.insider : [r EXCEPT !.dup = 1] = new}
         IN [ok |-> TRUE,
             view |-> [view EXCEPT !.insider =
                          IF hit = {}
                          THEN @ \cup {[new EXCEPT !.dup = Cardinality(same) + 1]}
                          ELSE (@ \ hit) \cup {upd(r) : r \in hit}]]

\* INSERT INTO stock_metadata ... ON CONFLICT (last_updated) DO UPDATE SET
\* description = EXCLUDED.description; last_updated is NOT NULL.
UpsertMetadata(view, metadata) ==
    IF "stock_metadata" \notin view.tables \/ IsNull(metadata.last_updated)
    THEN [ok |-> FALSE]
    ELSE LET hit == {r \in view.meta : r.last_updated = metadata.last_updated}
         IN [ok |-> TRUE,
             view |-> [view EXCEPT !.meta =
                          IF hit = {}
                          THEN @ \cup {[last_updated |-> metadata.last_updated,
                                        description |-> metadata.description]}
                          ELSE (@ \ hit) \cup
                               {[r EXCEPT !.description = metadata.description] : r \in hit}]]

\* Mutant: the WHERE clause is missing, the DELETE empties the table.
DeleteCategory_All(view, category) ==
    IF "stock_movers" \notin view.tables THEN [ok |-> FALSE]
    ELSE [ok |-> TRUE, view |-> [view EXCEPT !.movers = {}]]

\* Mutant: <> in place of =, the DELETE removes the other categories' rows.
DeleteCategory_Others(view, category) ==
    IF "stock_movers" \notin view.tables THEN [ok |-> FALSE]
    ELSE [ok |-> TRUE,
          view |-> [view EXCEPT !.movers = {r \in @ : r.category = category}]]

\* Mutant: the DELETE removes nothing.
DeleteCategory_Keep(view, category) ==
    IF "stock_movers" \notin view.tables THEN [ok |-> FALSE]
    ELSE [ok |-> TRUE, view |-> view]

\* DELETE FROM stock_movers WHERE category = %s
DeleteCategory(view, category) ==
    IF "stock_movers" \notin view.tables THEN [ok |-> FALSE]
    ELSE [ok |-> TRUE,
          view |-> [view EXCEPT !.movers = {r \in @ : r.category # category}]]

\* The row that INSERT INTO stock_movers builds: DECIMAL(10, 4) measures, BIGINT
\* volume.
MoverRow(rec) ==
    [ticker |-> rec.ticker,
     price |-> Round(rec.price.n, 4),
     change_amount |-> Round(rec.change_amount.n, 4),
     change_percentage |-> Round(rec.change_percentage.n, 4),
     volume |-> Round(rec.volume.n, 0),
     category |-> rec.category,
     last_updated |-> rec.last_updated]

\* UNIQUE (ticker, category, last_updated)
MoverKey(row) == <<row.ticker, row.category, row.last_updated>>

\* Every column of stock_movers is NOT NULL.
MoverValid(rec) ==
    /\ ~IsNull(rec.ticker) /\ ~IsNull(rec.last_updated)
    /\ Fits(rec.price.n, 4) /\ Fits(rec.change_amount.n, 4)
    /\ Fits(rec.change_percentage.n, 4)

\* Plain INSERT INTO stock_movers: a duplicate key is a unique violation.
InsertMover(view, rec) ==
    IF "stock_movers" \notin view.tables \/ ~MoverValid(rec)
    THEN [ok |-> FALSE]
    ELSE LET new == MoverRow(rec)
         IN IF \E r \in view.movers : MoverKey(r) = MoverKey(new)
            THEN [ok |-> FALSE]
            ELSE [ok |-> TRUE, view |-> [view EXCEPT !.movers = @ \cup {new}]]

(***************************************************************************)
(* Containers and the programs' constants.                                  *)
(***************************************************************************)
Dict(d) == [t |-> "dict", d |-> d]
EmptyDict == Dict(<< >>)

\* "if data": None and the empty dict are falsy.
TruthyData(v) == IF v.t = "dict" THEN DOMAIN v.d # {} ELSE Truthy(v)

SYMBOLS ==
    <<Str(<<"I", "B", "M">>), Str(<<"A", "A", "P", "L">>),
      Str(<<"M", "S", "F", "T">>), Str(<<"G", "O", "O", "G", "L">>)>>

\* raw key -> short category, in the order transform and load walk them
Categories == <<"gainers", "losers", "active">>

Programs == {"ETLPipeline", "StockMarketETL"}

(***************************************************************************)
(* The upstream API: what one run can be answered.                          *)
(***************************************************************************)
DateRecent == <<"2", "0", "2", "4", "-", "0", "6", "-", "0", "3">>
DateOld == <<"2", "0", "2", "3", "-", "0", "6", "-", "0", "3">>

\* The clock of a run: 2025-06-03, after midnight.
Clock == {[day |-> Ordinal(2025, 6, 3), tod |-> 1]}

\* Entries of an INSIDER_TRANSACTIONS answer.  EntryB has EntryA's key and another
\* title; EntryNull carries an explicit null executive; EntryOld is older than the
\* window and is all that a stale symbol answers.
EntryA ==
    [transaction_date |-> Str(DateRecent), shares |-> Str(<<"1", "0", "0">>),
     share_price |-> EmptyStr, executive |-> Str(<<"J">>),
     executive_title |-> Str(<<"C", "E", "O">>)]

EntryB ==
    [transaction_date |-> Str(DateRecent), shares |-> Str(<<"1", "0", "0">>),
     share_price |-> EmptyStr, executive |-> Str(<<"J">>),
     executive_title |-> Str(<<"C", "F", "O">>)]

EntryNull ==
    [transaction_date |-> Str(DateRecent), shares |-> Str(<<"5", ".", "5">>),
     share_price |-> Str(<<"2">>), executive |-> None,
     executive_title |-> Str(<<"C", "E", "O">>)]

EntryOld ==
    [transaction_date |-> Str(DateOld), shares |-> Str(<<"7">>),
     share_price |-> Str(<<"1">>), executive |-> Str(<<"K">>)]

Entries == {EntryA, EntryB, EntryNull}

SeqsUpTo(S, n) == UNION {[1..k -> S] : k \in 0..n}

\* Answers of one symbol: a notice without data, or a list of entries.
Notice == Dict([Information |-> Str(<<"l", "i", "m", "i", "t">>)])

InsiderAnswers == {Notice} \cup {Dict([data |-> l]) : l \in SeqsUpTo(Entries, MaxEntries)}

PlainAnswers == {Dict([data |-> <<EntryOld>>]), Dict([data |-> <<EntryA>>])}

\* One upstream state: the first symbol answers anything, the other symbols all
\* give the same plain answer.
InsiderUpstreams ==
    {[i \in 1..Len(SYMBOLS) |-> IF i = 1 THEN a ELSE q] :
        a \in InsiderAnswers, q \in PlainAnswers}

\* Items of a TOP_GAINERS_LOSERS answer.  ItemBad has a null change_percentage.
ItemX ==
    [ticker |-> Str(<<"X">>), price |-> Str(<<"1", ".", "5">>),
     change_amount |-> Str(<<"0", ".", "5">>),
     change_percentage |-> Str(<<"5", "0", "%">>), volume |-> Str(<<"9">>)]

ItemY ==
    [ticker |-> Str(<<"Y">>), price |-> Str(<<"2">>),
     change_amount |-> Str(<<"-", "1">>),
     change_percentage |-> Str(<<"-", "3", "3", ".", "3", "%">>), volume |-> EmptyStr]

ItemBad ==
    [ticker |-> Str(<<"Z">>), price |-> Str(<<"3">>),
     change_amount |-> Str(<<"1">>), change_percentage |-> None,
     volume |-> Str(<<"4">>)]

Items == {ItemX, ItemY, ItemBad}

Stamps == {Str(<<"T", "1">>), Str(<<"T", "2">>)}

MoversBody(g, q) ==
    [metadata |-> Str(<<"m">>), top_gainers |-> g, top_losers |-> q,
     most_actively_traded |-> q]

\* Answers of TOP_GAINERS_LOSERS: the empty object, a body without last_updated,
\* or a full snapshot; losers and active carry the same plain list.
MoversUpstreams ==
    {EmptyDict}
    \cup {Dict(MoversBody(g, << >>)) : g \in {<< >>, <<ItemX>>}}
    \cup {Dict([last_updated |-> u] @@ MoversBody(g, q)) :
             u \in Stamps, g \in SeqsUpTo(Items, MaxItems), q \in {<< >>, <<ItemX>>}}

Upstreams(p) == IF p = "ETLPipeline" THEN InsiderUpstreams ELSE MoversUpstreams

(***************************************************************************)
(* The transform phases, as the code computes them.                         *)
(***************************************************************************)
\* The inner loop of ETLPipeline.transform over one symbol's transactions:
\* [raised |-> BOOLEAN, out |-> records appended].
RECURSIVE TransformEntries(_, _, _)
TransformEntries(transactions, symbol, cutoff_date) ==
    IF transactions = << >> THEN [raised |-> FALSE, out |-> << >>]
    ELSE LET p == process_transaction(Head(transactions), symbol, cutoff_date)
         IN IF p.r = "raise" THEN [raised |-> TRUE, out |-> << >>]
            ELSE LET rest == TransformEntries(Tail(transactions), symbol, cutoff_date)
                 IN [raised |-> rest.raised,
                     out |-> IF p.r = "rec" THEN <<p.rec>> \o rest.out ELSE rest.out]

\* The outer loop of ETLPipeline.transform over raw_data.
RECURSIVE TransformRaw(_, _)
TransformRaw(raw, cutoff_date) ==
    IF raw = << >> THEN [raised |-> FALSE, out |-> << >>]
    ELSE LET h == TransformEntries(Get(Head(raw).data.d, "data", << >>),
                                   Head(raw).symbol, cutoff_date)
             rest == TransformRaw(Tail(raw), cutoff_date)
         IN IF h.raised THEN h
            ELSE [raised |-> rest.raised, out |-> h.out \o rest.out]

\* The loop of StockMarketETL.transform over one category's items.
RECURSIVE TransformItems(_, _, _)
TransformItems(items, category, last_updated) ==
    IF items = << >> THEN << >>
    ELSE LET p == process_item(Head(items), category, last_updated)
         IN (IF p.r = "rec" THEN <<p.rec>> ELSE << >>)
            \o TransformItems(Tail(items), category, last_updated)

\* StockMarketETL.transform: processed_data from raw_data.
TransformMovers(raw) ==
    LET lu == Get(raw, "last_updated", None)
    IN [metadata |-> [last_updated |-> lu, description |-> Get(raw, "metadata", None)],
        gainers |-> TransformItems(Get(raw, "top_gainers", << >>), "gainers", lu),
        losers |-> TransformItems(Get(raw, "top_losers", << >>), "losers", lu),
        active |-> TransformItems(Get(raw, "most_actively_traded", << >>), "active", lu)]

\* StockMarketETL.__init__: processed_data before transform
InitProcessedMovers ==
    [metadata |-> << >>, gainers |-> << >>, losers |-> << >>, active |-> << >>]

(***************************************************************************)
(* State.                                                                   *)
(***************************************************************************)
VARIABLES
    db,             \* the committed database
    tx,             \* the open connection's view of the database
    connection,     \* self.connection: "none", "open" or "closed"
    runs,           \* runs of main() started so far
    prog,           \* the program of the current run
    pc,             \* position of the current run
    upstream,       \* what the API answers during this run
    now,            \* datetime.now() of this run
    raw_data,       \* self.raw_data
    processed_data, \* self.processed_data
    success,        \* the local of ETLPipeline.extract
    idx,            \* loop position: symbol in extract, row in an insert loop
    cat,            \* position in the category loop of StockMarketETL.load
    pending,        \* how load() leaves its try block, awaiting the finally clause
    reported,       \* work units printed as failed in this run
    csv,            \* CSV files written in this run
    trace,          \* the steps of this run, in order
    batch,          \* the batch being written
    dbAtLoad,       \* db when load() was entered
    dbAtBatch,      \* db when the current batch began
    prev,           \* what the previous run left for the record
    call            \* a method called on its own: its arguments and what it gave

vars ==
    <<db, tx, connection, runs, prog, pc, upstream, now, raw_data,
      processed_data, success, idx, cat, pending, reported, csv, trace, batch,
      dbAtLoad, dbAtBatch, prev, call>>

storeVars == <<db, tx, connection>>
runVars == <<runs, prog, upstream, now>>
ghostVars == <<dbAtLoad, dbAtBatch, prev>>

Terminal == {"Completed", "Failed", "Crashed"}

NoRun == [prog |-> "none", outcome |-> "none"]

Ev(e, a) == [e |-> e, a |-> a]
Log(e, a) == trace' = Append(trace, Ev(e, a))

\* The event of a phase method returning True or False.
Returned(ok, phase) == Ev(IF ok THEN "ok" ELSE "failed", phase)

IsETL == prog = "ETLPipeline"
IsMovers == prog = "StockMarketETL"

NoCall == [op |-> "none"]

\* Both classes as constructed, before main() starts.
Fresh ==
    /\ db = EmptyDb
    /\ tx = EmptyDb
    /\ connection = "none"
    /\ runs = 0
    /\ prog = "ETLPipeline"
    /\ pc = "Idle"
    /\ upstream = << >>
    /\ now = CHOOSE c \in Clock : TRUE
    /\ raw_data = << >>
    /\ processed_data = << >>
    /\ success = TRUE
    /\ idx = 1
    /\ cat = 1
    /\ pending = "none"
    /\ reported = {}
    /\ csv = 0
    /\ trace = << >>
    /\ batch = "none"
    /\ dbAtLoad = EmptyDb
    /\ dbAtBatch = EmptyDb
    /\ prev = NoRun

Init == Fresh /\ call = NoCall

\* What a finished run leaves for the record: its program and outcome and, when it
\* completed, the records it loaded and the store it found.
Summary ==
    IF pc = "Completed"
    THEN [prog |-> prog, outcome |-> pc, processed |-> processed_data, before |-> dbAtLoad]
    ELSE [prog |-> prog, outcome |-> pc]

(***************************************************************************)
(* main(): where each phase's result leads.                                 *)
(***************************************************************************)
\* Mutant: main() ignores the result of extract().
AfterExtract_Ignore(ok) == "transform"

\* if not pipeline.extract(): print("Extraction phase failed"); return
AfterExtract(ok) == IF ok THEN "transform" ELSE "Failed"

\* if not pipeline.transform(): print(...); return
AfterTransform(ok) == IF ok THEN "load" ELSE "Failed"

\* if not pipeline.load(): print("Loading phase failed"); return
\* print("ETL pipeline completed successfully")
AfterLoad(ok) == IF ok THEN "Completed" ELSE "Failed"

(***************************************************************************)
(* main(): a new process; the pipeline object is constructed (__init__).    *)
(***************************************************************************)
StartRun ==
    /\ pc \in Terminal \cup {"Idle"}
    /\ runs < MaxRuns
    /\ runs' = runs + 1
    /\ \E p \in Programs :
          /\ prog' = p
          /\ upstream' \in Upstreams(p)
          /\ raw_data' = IF p = "ETLPipeline" THEN << >> ELSE EmptyDict
          /\ processed_data' = IF p = "ETLPipeline" THEN << >> ELSE InitProcessedMovers
    /\ now' \in Clock
    /\ connection' = "none"
    /\ tx' = db
    /\ pc' = "extract"
    /\ success' = TRUE
    /\ idx' = 1
    /\ cat' = 1
    /\ pending' = "none"
    /\ reported' = {}
    /\ csv' = 0
    /\ trace' = << >>
    /\ batch' = "none"
    /\ dbAtLoad' = db
    /\ dbAtBatch' = db
    /\ prev' = IF pc = "Idle" THEN prev ELSE Summary
    /\ UNCHANGED <<db, call>>

(***************************************************************************)
(* ETLPipeline.extract: one fetch and one sleep per symbol.                 *)
(***************************************************************************)
ExtractBegin ==
    /\ pc = "extract" /\ IsETL
    /\ success' = TRUE
    /\ idx' = 1
    /\ pc' = "fetch"
    /\ Log("phase", "Extracting")
    /\ UNCHANGED <<storeVars, runVars, call, ghostVars, raw_data, processed_data, cat,
                   pending, reported, csv, batch>>

\* The flag extract returns, after one more fetch.
ExtractFlag(flag, fetched) == IF fetched THEN flag ELSE FALSE

\* _fetch_api_data(symbol): the answer, or None on a request exception.
Fetch ==
    /\ pc = "fetch" /\ IsETL
    /\ \E data \in {None, upstream[idx]} :
          /\ success' = ExtractFlag(success, TruthyData(data))
          /\ IF TruthyData(data)
             THEN /\ raw_data' = Append(raw_data, [symbol |-> SYMBOLS[idx], data |-> data])
                  /\ UNCHANGED reported
             ELSE /\ reported' = reported \cup {SYMBOLS[idx]}
                  /\ UNCHANGED raw_data
    /\ pc' = "sleep"
    /\ Log("fetch", "")
    /\ UNCHANGED <<storeVars, runVars, call, ghostVars, processed_data, idx, cat, pending,
                   csv, batch>>

\* Mutant: the delay sits in the branch of a successful fetch.
Delay_OnSuccess(fetched) == IF fetched THEN <<Ev("sleep", "")>> ELSE << >>

\* time.sleep(12) at the end of the loop body, whatever the fetch gave.
Delay(fetched) == <<Ev("sleep", "")>>

\* Whether the fetch of the current symbol gave data.
Fetched == SYMBOLS[idx] \notin reported

\* time.sleep(12), then the next symbol or the return to main().
Sleep ==
    /\ pc = "sleep" /\ IsETL
    /\ IF idx < Len(SYMBOLS)
       THEN /\ idx' = idx + 1
            /\ pc' = "fetch"
            /\ trace' = trace \o Delay(Fetched)
       ELSE /\ idx' = 1
            /\ pc' = AfterExtract(success)
            /\ trace' = trace \o Delay(Fetched) \o <<Returned(success, "Extracting")>>
    /\ UNCHANGED <<storeVars, runVars, call, ghostVars, raw_data, processed_data, success,
                   cat, pending, reported, csv, batch>>

(***************************************************************************)
(* StockMarketETL.extract: a single fetch; display_data only prints.        *)
(***************************************************************************)
ExtractMovers ==
    /\ pc = "extract" /\ IsMovers
    /\ \E data \in {None, upstream} :
          /\ raw_data' = IF TruthyData(data) THEN data ELSE raw_data
          /\ pc' = AfterExtract(TruthyData(data))
          /\ trace' = trace \o <<Ev("phase", "Extracting"), Ev("fetch", ""),
                                 Returned(TruthyData(data), "Extracting")>>
    /\ UNCHANGED <<storeVars, runVars, call, ghostVars, processed_data, success, idx, cat,
                   pending, reported, csv, batch>>

(***************************************************************************)
(* transform                                                                *)
(***************************************************************************)
\* ETLPipeline.transform returns len(self.processed_data) > 0
TransformResultETL(processed) == Len(processed) > 0

\* StockMarketETL.transform returns True when no exception was raised
TransformResultStock(processed) == TRUE

\* The loops of ETLPipeline.transform run on the current raw_data.
TransformedETL == TransformRaw(raw_data, CutoffDate(now))

TransformETL ==
    /\ pc = "transform" /\ IsETL
    /\ IF raw_data = << >>
       THEN /\ pc' = AfterTransform(FALSE)
            /\ trace' = trace \o <<Ev("phase", "Transforming"), Returned(FALSE, "Transforming")>>
            /\ UNCHANGED processed_data
       ELSE IF TransformedETL.raised
       THEN /\ pc' = "Crashed"
            /\ trace' = trace \o <<Ev("phase", "Transforming"), Ev("raise", "Transforming")>>
            /\ processed_data' = processed_data \o TransformedETL.out
       ELSE /\ processed_data' = processed_data \o TransformedETL.out
            /\ pc' = AfterTransform(TransformResultETL(processed_data'))
            /\ trace' = trace \o <<Ev("phase", "Transforming"),
                                   Returned(TransformResultETL(processed_data'), "Transforming")>>
    /\ UNCHANGED <<storeVars, runVars, call, ghostVars, raw_data, success, idx, cat,
                   pending, reported, csv, batch>>

TransformStock ==
    /\ pc = "transform" /\ IsMovers
    /\ IF ~TruthyData(raw_data)
       THEN /\ pc' = AfterTransform(FALSE)
            /\ trace' = trace \o <<Ev("phase", "Transforming"), Returned(FALSE, "Transforming")>>
            /\ UNCHANGED processed_data
       ELSE LET out == TransformMovers(raw_data.d)
            IN /\ processed_data' = out
               /\ pc' = AfterTransform(TransformResultStock(out))
               /\ trace' = trace \o <<Ev("phase", "Transforming"),
                                      Returned(TransformResultStock(out), "Transforming")>>
    /\ UNCHANGED <<storeVars, runVars, call, ghostVars, raw_data, success, idx, cat,
                   pending, reported, csv, batch>>

(***************************************************************************)
(* load                                                                     *)
(***************************************************************************)
\* The rows the current insert loop walks.
BatchRows == IF IsETL THEN processed_data ELSE processed_data[Categories[cat]]

\* "if not self.processed_data": an empty list is falsy; the dict of
\* StockMarketETL always holds its four keys and is truthy.
NothingToLoad == IsETL /\ processed_data = << >>

\* load(): the guard before the try block.
LoadBegin ==
    /\ pc = "load"
    /\ dbAtLoad' = db
    /\ IF NothingToLoad
       THEN /\ pc' = AfterLoad(FALSE)
            /\ trace' = trace \o <<Ev("phase", "Loading"), Returned(FALSE, "Loading")>>
       ELSE /\ pc' = "connect"
            /\ Log("phase", "Loading")
    /\ UNCHANGED <<storeVars, runVars, call, raw_data, processed_data, success, idx, cat,
                   pending, reported, csv, batch, dbAtBatch, prev>>

\* Mutant: the except clause does not raise again; load() goes on without a
\* connection and self.connection.cursor() raises AttributeError.
Connect_Swallow ==
    /\ pc = "connect"
    /\ \E ok \in BOOLEAN :
          IF ok
          THEN /\ connection' = "open"
               /\ tx' = db
               /\ pc' = "create"
               /\ Log("connect", "")
               /\ UNCHANGED pending
          ELSE /\ pending' = "raise"
               /\ pc' = "finally"
               /\ Log("error", "connect")
               /\ UNCHANGED <<connection, tx>>
    /\ UNCHANGED <<db, runVars, call, ghostVars, raw_data, processed_data, success,
                   idx, cat, reported, csv, batch>>

\* _establish_db_connection: psycopg2.connect, autocommit off.
Connect ==
    /\ pc = "connect"
    /\ \E ok \in BOOLEAN :
          IF ok
          THEN /\ connection' = "open"
               /\ tx' = db
               /\ pc' = "create"
               /\ Log("connect", "")
               /\ UNCHANGED pending
          ELSE /\ pending' = "false"
               /\ pc' = "finally"
               /\ Log("error", "connect")
               /\ UNCHANGED <<connection, tx>>
    /\ UNCHANGED <<db, runVars, call, ghostVars, raw_data, processed_data, success,
                   idx, cat, reported, csv, batch>>

\* _create_table_if_not_exists / _create_tables_if_not_exists
CreateTables ==
    /\ pc = "create"
    /\ \E ok \in BOOLEAN :
          IF ok
          THEN /\ tx' = IF IsETL
                        THEN CreateTable(tx, "insider_transactions")
                        ELSE CreateTable(CreateTable(tx, "stock_metadata"), "stock_movers")
               /\ pc' = IF IsETL THEN "insert" ELSE "metadata"
               /\ batch' = IF IsETL THEN "insider" ELSE "metadata"
               /\ dbAtBatch' = db
               /\ idx' = 1
               /\ Log("create", "")
               /\ UNCHANGED pending
          ELSE /\ pending' = "false"
               /\ pc' = "finally"
               /\ Log("error", "create")
               /\ UNCHANGED <<tx, batch, dbAtBatch, idx>>
    /\ UNCHANGED <<db, connection, runVars, call, dbAtLoad, prev, raw_data,
                   processed_data, success, cat, reported, csv>>

\* Mutant: the writes of the failed transaction stay.
AfterRollback_Keep(committed, view) == view

\* self.connection.rollback(): the database after the transaction whose view was
\* `view` is rolled back.
AfterRollback(committed, view) == committed

\* The except clause of a batch: rollback, then the Error is raised again and
\* caught by load().
Abort(what) ==
    /\ db' = AfterRollback(db, tx)
    /\ tx' = db'
    /\ pending' = "false"
    /\ pc' = "finally"
    /\ trace' = trace \o <<Ev("error", what), Ev("rollback", batch)>>

\* One row of cursor.executemany(insert_query, data) in _insert_data_to_db.
InsertInsider ==
    /\ pc = "insert" /\ IsETL
    /\ \E fault \in BOOLEAN :
          LET r == IF fault THEN [ok |-> FALSE]
                   ELSE UpsertInsider(tx, processed_data[idx])
          IN IF r.ok
             THEN /\ tx' = r.view
                  /\ idx' = IF idx < Len(processed_data) THEN idx + 1 ELSE 1
                  /\ pc' = IF idx < Len(processed_data) THEN "insert" ELSE "commit"
                  /\ Log("insert", batch)
                  /\ UNCHANGED <<db, pending>>
             ELSE /\ Abort("insert")
                  /\ UNCHANGED idx
    /\ UNCHANGED <<connection, runVars, call, ghostVars, raw_data, processed_data,
                   success, cat, reported, csv, batch>>

\* _load_metadata: the upsert of the metadata row.
LoadMetadata ==
    /\ pc = "metadata" /\ IsMovers
    /\ \E fault \in BOOLEAN :
          LET r == IF fault THEN [ok |-> FALSE]
                   ELSE UpsertMetadata(tx, processed_data.metadata)
          IN IF r.ok
             THEN /\ tx' = r.view
                  /\ pc' = "commit"
                  /\ Log("insert", batch)
                  /\ UNCHANGED <<db, pending>>
             ELSE Abort("insert")
    /\ UNCHANGED <<connection, runVars, call, ghostVars, raw_data, processed_data,
                   success, idx, cat, reported, csv, batch>>

\* _insert_stock_data: DELETE FROM stock_movers WHERE category = %s
DeleteOld ==
    /\ pc = "delete" /\ IsMovers
    /\ \E fault \in BOOLEAN :
          LET r == IF fault THEN [ok |-> FALSE] ELSE DeleteCategory(tx, Categories[cat])
          IN IF r.ok
             THEN /\ tx' = r.view
                  /\ idx' = 1
                  /\ pc' = IF BatchRows = << >> THEN "commit" ELSE "insert"
                  /\ Log("delete", batch)
                  /\ UNCHANGED <<db, pending>>
             ELSE /\ Abort("delete")
                  /\ UNCHANGED idx
    /\ UNCHANGED <<connection, runVars, call, ghostVars, raw_data, processed_data,
                   success, cat, reported, csv, batch>>

\* _insert_stock_data: one INSERT of the loop over df.iterrows()
InsertStock ==
    /\ pc = "insert" /\ IsMovers
    /\ \E fault \in BOOLEAN :
          LET r == IF fault THEN [ok |-> FALSE]
                   ELSE InsertMover(tx, BatchRows[idx])
          IN IF r.ok
             THEN /\ tx' = r.view
                  /\ idx' = IF idx < Len(BatchRows) THEN idx + 1 ELSE 1
                  /\ pc' = IF idx < Len(BatchRows) THEN "insert" ELSE "commit"
                  /\ Log("insert", batch)
                  /\ UNCHANGED <<db, pending>>
             ELSE /\ Abort("insert")
                  /\ UNCHANGED idx
    /\ UNCHANGED <<connection, runVars, call, ghostVars, raw_data, processed_data,
                   success, cat, reported, csv, batch>>

\* Mutant: _save_to_csv is called before the loop over the categories.
AfterCommit_CsvFirst == [pc |-> "csv", cat |-> 1, batch |-> "none"]

\* Where a batch's commit leads: the next batch, or the CSV backup.
AfterCommit ==
    IF IsETL THEN [pc |-> "csv", cat |-> cat, batch |-> "none"]
    ELSE IF batch = "metadata" THEN [pc |-> "delete", cat |-> 1, batch |-> Categories[1]]
    ELSE IF cat < Len(Categories)
         THEN [pc |-> "delete", cat |-> cat + 1, batch |-> Categories[cat + 1]]
    ELSE [pc |-> "csv", cat |-> 1, batch |-> "none"]

\* Mutant: the commit is lost.
AfterCommitDb_Lost(committed, view) == committed

\* self.connection.commit(): the database after the transaction whose view was
\* `view` is committed.
AfterCommitDb(committed, view) == view

\* self.connection.commit() at the end of a batch
Commit ==
    /\ pc = "commit"
    /\ \E ok \in BOOLEAN :
          IF ok
          THEN /\ db' = AfterCommitDb(db, tx)
               /\ dbAtBatch' = db'
               /\ pc' = AfterCommit.pc
               /\ cat' = AfterCommit.cat
               /\ batch' = AfterCommit.batch
               /\ Log("commit", batch)
               /\ UNCHANGED <<tx, pending>>
          ELSE /\ Abort("commit")
               /\ UNCHANGED <<dbAtBatch, cat, batch>>
    /\ UNCHANGED <<connection, runVars, call, dbAtLoad, prev, raw_data, processed_data,
                   success, idx, reported, csv>>

\* Files _save_to_csv writes: one (ETLPipeline) or one per category.
CsvFiles == IF IsETL THEN 1 ELSE Len(Categories)

\* _save_to_csv: an OSError is no psycopg2.Error and leaves load() uncaught.
SaveCsv ==
    /\ pc = "csv"
    /\ \E k \in 0..CsvFiles :
          /\ csv' = k
          /\ pending' = IF k = CsvFiles THEN "true" ELSE "raise"
    /\ pc' = "finally"
    /\ Log("csv", "")
    /\ UNCHANGED <<storeVars, runVars, call, ghostVars, raw_data, processed_data, success,
                   idx, cat, reported, batch>>

\* Mutant: the connection is left open.
CloseConnection_Leak(c) == c

\* _close_db_connection: close the connection if there is one.
CloseConnection(c) == IF c = "open" THEN "closed" ELSE c

\* The finally clause of load(), then main()'s report (an exception that load()
\* does not catch ends the process).
Finally ==
    /\ pc = "finally"
    /\ connection' = CloseConnection(connection)
    /\ tx' = db
    /\ pc' = IF pending = "raise" THEN "Crashed" ELSE AfterLoad(pending = "true")
    /\ trace' = trace
                \o (IF connection = "open" THEN <<Ev("close", "")>> ELSE << >>)
                \o (IF pending = "raise" THEN <<Ev("raise", "Loading")>>
                    ELSE <<Returned(pending = "true", "Loading")>>)
    /\ pending' = "none"
    /\ UNCHANGED <<db, runVars, call, ghostVars, raw_data, processed_data, success, idx,
                   cat, reported, csv, batch>>

Next ==
    \/ StartRun
    \/ ExtractBegin
    \/ Fetch
    \/ Sleep
    \/ ExtractMovers
    \/ TransformETL
    \/ TransformStock
    \/ LoadBegin
    \/ Connect
    \/ CreateTables
    \/ InsertInsider
    \/ LoadMetadata
    \/ DeleteOld
    \/ InsertStock
    \/ Commit
    \/ SaveCsv
    \/ Finally

Spec == Init /\ [][Next]_vars

(***************************************************************************)
(* The helper methods called on their own, on any value json can give.      *)
(***************************************************************************)
Alphabet == {"1", "5", ".", "-", "a", " "}

\* Values a field of a json answer can hold.
CoerceInputs ==
    {None, Float(0), Float(15000), HugeInt, EmptyDict, Notice}
    \cup {Str(cs) : cs \in SeqsUpTo(Alphabet, MaxStr)}

Defaults == {Float(0), Float(7 * Scale)}

\* The clock at midnight and after it: datetime.now() carries the time of day.
UnitClock == {[day |-> Ordinal(2025, 6, 3), tod |-> t] : t \in {0, 1}}

\* The day CUTOFF_DAYS before the clock's, the day before it (DateOld), a day in
\* the window, a day no month has, text, and a number.
DateCut == <<"2", "0", "2", "3", "-", "0", "6", "-", "0", "4">>
DateNone == <<"2", "0", "2", "4", "-", "0", "2", "-", "3", "0">>

DateInputs ==
    {None, EmptyStr, Float(Scale), Str(<<"a">>)}
    \cup {Str(d) : d \in {DateOld, DateCut, DateRecent, DateNone}}

\* Entries without a transaction_date, and with each of DateInputs.
EntryBodies ==
    {[shares |-> sh, share_price |-> Str(<<"2">>), executive |-> ex] :
        sh \in {Str(<<"1", "0", "0">>), None, HugeInt}, ex \in {Str(<<"J">>), None}}

UnitEntries ==
    EntryBodies \cup {[transaction_date |-> d] @@ b : d \in DateInputs, b \in EntryBodies}

UnitCalls ==
    {[op |-> "safe_float", value |-> v, default |-> d, done |-> FALSE, out |-> NoCall] :
        v \in CoerceInputs, d \in Defaults}
    \cup {[op |-> "process_transaction", transaction |-> e, symbol |-> SYMBOLS[1],
           cutoff_date |-> CutoffDate(c), done |-> FALSE, out |-> NoCall] :
             e \in UnitEntries, c \in UnitClock}

mainVars ==
    <<db, tx, connection, runs, prog, pc, upstream, now, raw_data,
      processed_data, success, idx, cat, pending, reported, csv, trace, batch,
      dbAtLoad, dbAtBatch, prev>>

InitUnit == Fresh /\ call \in UnitCalls

CallSafeFloat ==
    /\ call.op = "safe_float" /\ ~call.done
    /\ call' = [call EXCEPT !.done = TRUE, !.out = safe_float(call.value, call.default)]
    /\ UNCHANGED mainVars

CallProcessTransaction ==
    /\ call.op = "process_transaction" /\ ~call.done
    /\ call' = [call EXCEPT !.done = TRUE,
                            !.out = process_transaction(call.transaction, call.symbol,
                                                        call.cutoff_date)]
    /\ UNCHANGED mainVars

NextUnit == CallSafeFloat \/ CallProcessTransaction

SpecUnit == InitUnit /\ [][NextUnit]_vars

(***************************************************************************)
(* The transform phase on any payload json can give: the run is taken at    *)
(* the entry of transform() with raw_data as extract() can have left it.    *)
(***************************************************************************)
EntryNoDate == [shares |-> Str(<<"7">>), executive |-> Str(<<"K">>)]

EntryNumDate ==
    [transaction_date |-> Float(Scale), shares |-> Str(<<"7">>), executive |-> Str(<<"K">>)]

EntryHuge ==
    [transaction_date |-> Str(DateRecent), shares |-> HugeInt, executive |-> Str(<<"K">>)]

RichEntries == {EntryA, EntryNull, EntryOld, EntryNoDate, EntryNumDate, EntryHuge}

RichAnswers == {Notice} \cup {Dict([data |-> l]) : l \in SeqsUpTo(RichEntries, MaxEntries)}

\* raw_data of ETLPipeline after the fetches of one or two symbols gave data.
RichRawETL ==
    {<<[symbol |-> SYMBOLS[1], data |-> a]>> : a \in RichAnswers}
    \cup {<<[symbol |-> SYMBOLS[1], data |-> a], [symbol |-> SYMBOLS[2], data |-> b]>> :
             a \in RichAnswers, b \in RichAnswers}

ItemNullTicker ==
    [ticker |-> None, price |-> Str(<<"3">>), change_amount |-> Str(<<"1">>),
     change_percentage |-> Str(<<"5", "%">>), volume |-> Str(<<"4">>)]

ItemHuge ==
    [ticker |-> Str(<<"H">>), price |-> Str(<<"3">>), change_amount |-> Str(<<"1">>),
     change_percentage |-> Str(<<"5", "%">>), volume |-> HugeInt]

RichItems == {ItemX, ItemBad, ItemNullTicker, ItemHuge}

\* raw_data of StockMarketETL: a snapshot with or without last_updated.
RichRawMovers ==
    {Dict(MoversBody(g, q)) : g \in SeqsUpTo(RichItems, MaxItems), q \in {<< >>, <<ItemBad, ItemX>>}}
    \cup {Dict([last_updated |-> u] @@ MoversBody(g, q)) :
             u \in Stamps, g \in SeqsUpTo(RichItems, MaxItems), q \in {<< >>, <<ItemBad, ItemX>>}}

InitTransform ==
    /\ db = EmptyDb
    /\ tx = EmptyDb
    /\ connection = "none"
    /\ runs = 1
    /\ prog \in Programs
    /\ pc = "transform"
    /\ upstream = << >>
    /\ now \in UnitClock
    /\ raw_data \in (IF IsETL THEN RichRawETL ELSE RichRawMovers)
    /\ processed_data = (IF IsETL THEN << >> ELSE InitProcessedMovers)
    /\ success = TRUE
    /\ idx = 1
    /\ cat = 1
    /\ pending = "none"
    /\ reported = {}
    /\ csv = 0
    /\ trace = << >>
    /\ batch = "none"
    /\ dbAtLoad = EmptyDb
    /\ dbAtBatch = EmptyDb
    /\ prev = NoRun
    /\ call = NoCall

NextTransform == TransformETL \/ TransformStock

SpecTransform == InitTransform /\ [][NextTransform]_vars

(***************************************************************************)
(* Vocabulary of the properties.                                            *)
(***************************************************************************)
Happened(e, a) == \E i \in DOMAIN trace : trace[i] = Ev(e, a)

IsPhase(x) == x.e = "phase"
PhasesEntered == SelectSeq(trace, IsPhase)

PhaseOrder == <<"Extracting", "Transforming", "Loading">>

CategorySet == {Categories[i] : i \in DOMAIN Categories}

\* The stock_movers rows of one category, and the rows a record list stands for.
CatRows(d, c) == {r \in d.movers : r.category = c}
RowSet(recs) == {MoverRow(recs[i]) : i \in DOMAIN recs}

RawCount == IF IsETL THEN Len(raw_data) ELSE IF TruthyData(raw_data) THEN 1 ELSE 0

ProcessedCount ==
    IF IsETL THEN Len(processed_data)
    ELSE Len(processed_data.gainers) + Len(processed_data.losers)
         + Len(processed_data.active)

PrevCompleted(p) == prev.prog = p /\ prev.outcome = "Completed"

(***************************************************************************)
(* C1.  Loading the same record set twice in a row into an initially empty  *)
(* insider_transactions leaves the rows that loading it once left.          *)
(* Stated for the second of two completed ETLPipeline runs with equal       *)
(* processed records, the first of which found the table empty.             *)
(***************************************************************************)
C1_LoadTwiceSameRows ==
    (/\ pc = "Completed" /\ IsETL
     /\ PrevCompleted("ETLPipeline")
     /\ prev.before.insider = {}
     /\ prev.processed = processed_data)
    => db.insider = dbAtLoad.insider

(***************************************************************************)
(* C2.  Snapshot replace: once the load of a category committed in a run,   *)
(* stock_movers holds for that category exactly the rows of the run's       *)
(* records, whatever an earlier load left there.                            *)
(***************************************************************************)
C2_SnapshotReplace ==
    IsMovers =>
        \A c \in CategorySet :
            Happened("commit", c) => CatRows(db, c) = RowSet(processed_data[c])

\* A second completed load whose category lost a row of the first load.
C2_Witness ==
    /\ IsMovers /\ pc = "Completed" /\ PrevCompleted("StockMarketETL")
    /\ \E c \in CategorySet :
          /\ processed_data[c] # << >>
          /\ \E r \in RowSet(prev.processed[c]) : r \notin db.movers

(***************************************************************************)
(* C3.  Partial extraction: an ETLPipeline run in which only the second     *)
(* symbol's fetch failed goes on to transform and ends with the processed   *)
(* records of the symbols that were fetched.                                *)
(***************************************************************************)
C3_PartialExtraction ==
    (pc \in Terminal /\ IsETL /\ reported = {SYMBOLS[2]})
    => /\ Happened("phase", "Transforming")
       /\ processed_data = TransformedETL.out

(***************************************************************************)
(* C4.  A run is reported completed only if extraction produced a raw       *)
(* record, transformation produced a processed record and the load          *)
(* committed.                                                               *)
(***************************************************************************)
C4_SuccessOnlyWithData ==
    pc = "Completed"
    => /\ RawCount >= 1
       /\ ProcessedCount >= 1
       /\ \E i \in DOMAIN trace : trace[i].e = "commit"
       /\ ~\E i \in DOMAIN trace : trace[i].e = "error"

(***************************************************************************)
(* C5.  Orchestrator state machine: in a run the phases entered are a       *)
(* prefix of Extracting, Transforming, Loading (in order, each once); a     *)
(* phase is entered right after the one before it returned success; a run   *)
(* that is Failed ended on a phase's failure, Completed only on Loading's   *)
(* success; and from a finished run the only step is the start of another   *)
(* run.                                                                     *)
(***************************************************************************)
C5_Order ==
    /\ Len(PhasesEntered) <= Len(PhaseOrder)
    /\ \A k \in DOMAIN PhasesEntered : PhasesEntered[k].a = PhaseOrder[k]
    /\ \A i \in DOMAIN trace :
          \A k \in 2..Len(PhaseOrder) :
             trace[i] = Ev("phase", PhaseOrder[k])
             => (i > 1 /\ trace[i - 1] = Ev("ok", PhaseOrder[k - 1]))
    /\ pc = "Failed" => (trace # << >> /\ trace[Len(trace)].e = "failed")
    /\ pc = "Completed" => (trace # << >> /\ trace[Len(trace)] = Ev("ok", "Loading"))
    /\ \A i \in DOMAIN trace : trace[i].e = "failed" => (i = Len(trace) /\ pc = "Failed")

C5_Halt == pc \in Terminal => (runs' = runs + 1 /\ pc' = "extract" /\ trace' = << >>)

C5_StateMachine == []C5_Order /\ [][C5_Halt]_vars

\* A run that failed in its second phase and never entered the third.
C5_Witness ==
    /\ pc = "Failed"
    /\ Len(PhasesEntered) = 2
    /\ trace[Len(trace)] = Ev("failed", "Transforming")

(***************************************************************************)
(* C6.  As claimed: whenever load() reports failure, the store equals the   *)
(* store before load() started.                                             *)
(***************************************************************************)
LoadFailed == pc = "Failed" /\ Happened("failed", "Loading")

C6_NoPartialCommit == LoadFailed => db = dbAtLoad

(***************************************************************************)
(* C6, amended.  When load() reports failure, the store holds exactly the   *)
(* batches committed before the failing one: in ETLPipeline (one batch) it  *)
(* equals the store before load(); in StockMarketETL the metadata row and   *)
(* each category committed earlier in the run stay, and every other table   *)
(* part is as before load().                                                *)
(***************************************************************************)
MetaAfterUpsert ==
    UpsertMetadata(CreateTable(dbAtLoad, "stock_metadata"), processed_data.metadata).view.meta

C6_CommittedPrefix ==
    LoadFailed =>
        IF IsETL THEN db = dbAtLoad
        ELSE /\ db.insider = dbAtLoad.insider
             /\ db.tables = IF Happened("commit", "metadata")
                            THEN dbAtLoad.tables \cup {"stock_metadata", "stock_movers"}
                            ELSE dbAtLoad.tables
             /\ db.meta = IF Happened("commit", "metadata") THEN MetaAfterUpsert
                          ELSE dbAtLoad.meta
             /\ \A c \in CategorySet :
                   CatRows(db, c) = IF Happened("commit", c) THEN RowSet(processed_data[c])
                                    ELSE CatRows(dbAtLoad, c)
             /\ ~Happened("commit", "active")

\* A failed StockMarketETL load that had committed its gainers over earlier rows.
C6_Witness ==
    /\ LoadFailed /\ IsMovers
    /\ Happened("commit", "gainers")
    /\ dbAtLoad.movers # {}
    /\ db # dbAtLoad

(***************************************************************************)
(* C7.  Per-batch atomicity: once a batch has failed, the store and the     *)
(* connection's view are the store as it was when that batch began; the     *)
(* rows the category had are all there.                                     *)
(***************************************************************************)
RolledBack == \E i \in DOMAIN trace : trace[i].e = "rollback"

C7_BatchAtomic ==
    RolledBack =>
        /\ db = dbAtBatch
        /\ tx = dbAtBatch
        /\ batch \in CategorySet => CatRows(db, batch) = CatRows(dbAtBatch, batch)

\* An INSERT failed after the category's DELETE ran, over rows of an earlier run.
C7_Witness ==
    /\ pc = "finally" /\ IsMovers /\ batch \in CategorySet
    /\ Happened("delete", batch)
    /\ Len(trace) >= 2
    /\ trace[Len(trace) - 1] = Ev("error", "insert")
    /\ trace[Len(trace)] = Ev("rollback", batch)
    /\ CatRows(dbAtBatch, batch) # {}

(***************************************************************************)
(* C8.  Connection scoping: no connection is open before the load phase     *)
(* opens one, nor once the run has ended (load() returned or raised).       *)
(***************************************************************************)
C8_ConnectionScoped ==
    pc \in Terminal \cup {"Idle", "extract", "fetch", "sleep", "transform", "load"}
    => connection # "open"

\* load() left by an exception it does not catch, its connection closed.
C8_Witness == pc = "Crashed" /\ Happened("connect", "") /\ connection = "closed"

(***************************************************************************)
(* C9.  As claimed: every run that reaches the load phase with processed    *)
(* records performs the CSV write, whether the database write committed or  *)
(* failed.                                                                  *)
(***************************************************************************)
C9_CsvAlways ==
    (pc \in Terminal /\ Happened("phase", "Loading") /\ ProcessedCount >= 1)
    => Happened("csv", "")

(***************************************************************************)
(* C10.  As claimed: loading an empty record set is a no-op success.  A     *)
(* load of ETLPipeline entered with no records does not fail, and a         *)
(* category of StockMarketETL loaded with no records keeps the rows it had. *)
(***************************************************************************)
C10_EmptyNoOp ==
    /\ (IsETL /\ Happened("phase", "Loading") /\ processed_data = << >>) => pc # "Failed"
    /\ IsMovers =>
          \A c \in CategorySet :
             (Happened("commit", c) /\ processed_data[c] = << >>)
             => CatRows(db, c) = CatRows(dbAtLoad, c)

(***************************************************************************)
(* C11.  Rate governance in ETLPipeline.extract: the symbols are fetched    *)
(* one at a time in the order of SYMBOLS, every fetch but the first comes   *)
(* right after a delay, and every fetch that is not the run's latest step   *)
(* is followed at once by a delay, whether it gave data or not.             *)
(***************************************************************************)
IsFetch(x) == x.e = "fetch"
Fetches == Len(SelectSeq(trace, IsFetch))

C11_RateGovernance ==
    IsETL =>
        /\ \A i \in DOMAIN trace :
              trace[i].e = "fetch" =>
                 /\ i < Len(trace) => trace[i + 1] = Ev("sleep", "")
                 /\ i = Len(trace) => pc = "sleep"
                 /\ trace[i - 1] \in {Ev("phase", "Extracting"), Ev("sleep", "")}
        /\ Fetches <= Len(SYMBOLS)
        /\ pc = "fetch" => idx = Fetches + 1
        /\ pc = "sleep" => idx = Fetches
        /\ Len(raw_data) + Cardinality(reported) = Fetches
        /\ reported \subseteq {SYMBOLS[k] : k \in 1..Fetches}
        /\ \A j \in DOMAIN raw_data :
              /\ raw_data[j].symbol \in {SYMBOLS[k] : k \in 1..Fetches} \ reported
              /\ \A k \in DOMAIN raw_data :
                    j < k => \E a, b \in DOMAIN SYMBOLS :
                                /\ a < b
                                /\ SYMBOLS[a] = raw_data[j].symbol
                                /\ SYMBOLS[b] = raw_data[k].symbol

\* The second symbol is being fetched after the first fetch failed and was
\* followed by its delay.
C11_Witness ==
    /\ IsETL /\ pc = "sleep" /\ idx = 2
    /\ SYMBOLS[1] \in reported
    /\ Len(trace) = 4
    /\ trace[3] = Ev("sleep", "")

(***************************************************************************)
(* C12.  Retention rule of _process_transaction: for every entry and cutoff *)
(* C, a record is emitted if and only if transaction_date is a non-empty    *)
(* string that parses to a date D with D >= C (C an instant with its time   *)
(* of day, D the midnight of the parsed day, so that D = C is retained); an *)
(* entry whose transaction_date is missing, null, empty or a string that    *)
(* does not parse is dropped without raising.                               *)
(***************************************************************************)
NormalizeDone == call.op = "process_transaction" /\ call.done

DateOf(transaction) == Get(transaction, "transaction_date", None)

Parses(v) == IsStr(v) /\ v.s # << >> /\ ParseDate(v.s).ok

\* D >= C for D the midnight of the day written in v
NotBefore(v, cutoff) ==
    LET pd == ParseDate(v.s)
        D == <<Ordinal(pd.y, pd.m, pd.d), 0>>
        C == <<cutoff.day, cutoff.tod>>
    IN D[1] > C[1] \/ (D[1] = C[1] /\ D[2] >= C[2])

C12_Retention ==
    NormalizeDone =>
        LET d == DateOf(call.transaction)
        IN /\ call.out.r = "rec" <=> (Parses(d) /\ NotBefore(d, call.cutoff_date))
           /\ (IsNone(d) \/ d = EmptyStr \/ (IsStr(d) /\ ~Parses(d))) => call.out.r = "none"

(***************************************************************************)
(* C13.  Normalizer output guarantee: transform emits at most one record    *)
(* per input entry, and in every emitted record every numeric field is a    *)
(* number and every string field a string, never null, also when the entry  *)
(* carries the field with an explicit null.                                 *)
(***************************************************************************)
Transformed == pc # "transform" /\ Happened("phase", "Transforming")

RECURSIVE SumLen(_)
SumLen(lists) == IF lists = << >> THEN 0 ELSE Len(Head(lists)) + SumLen(Tail(lists))

EntryLists ==
    IF IsETL THEN [i \in DOMAIN raw_data |-> Get(raw_data[i].data.d, "data", << >>)]
    ELSE <<Get(raw_data.d, "top_gainers", << >>), Get(raw_data.d, "top_losers", << >>),
           Get(raw_data.d, "most_actively_traded", << >>)>>

EmittedRecords ==
    IF IsETL THEN {processed_data[i] : i \in DOMAIN processed_data}
    ELSE UNION {{processed_data[c][i] : i \in DOMAIN processed_data[c]} : c \in CategorySet}

StringFields ==
    IF IsETL THEN {"symbol", "date", "executive", "title", "type", "transaction"}
    ELSE {"ticker", "last_updated"}

NumericFields ==
    IF IsETL THEN {"shares", "price"}
    ELSE {"price", "change_amount", "change_percentage", "volume"}

C13_FullyDefined ==
    Transformed =>
        /\ ProcessedCount <= SumLen(EntryLists)
        /\ \A rec \in EmittedRecords :
              /\ \A f \in StringFields : IsStr(rec[f])
              /\ \A f \in NumericFields : IsFloat(rec[f])

(***************************************************************************)
(* C14.  Numeric coercion: _safe_float never raises, whatever the value; it *)
(* returns the number a numeric string writes, and the default for None,    *)
(* the empty string and a string that is not a number.                      *)
(***************************************************************************)
CoerceDone == call.op = "safe_float" /\ call.done

C14_SafeFloat ==
    CoerceDone =>
        /\ call.out.r = "ret"
        /\ (IsStr(call.value) /\ ParseFloat(call.value.s).ok)
           => call.out = Ret(Float(ParseFloat(call.value.s).n))
        /\ (IsNone(call.value) \/ call.value = EmptyStr
            \/ (IsStr(call.value) /\ ~ParseFloat(call.value.s).ok))
           => call.out = Ret(call.default)

(***************************************************************************)
(* C15.  Per-entry isolation: an exception raised while one entry is        *)
(* normalized drops that entry only; transform does not abort, and every    *)
(* other entry of the payload is normalized and emitted, in order.          *)
(***************************************************************************)
\* The records of the entries of a list that normalize, the others dropped.
RECURSIVE Normalized(_, _, _)
Normalized(entries, symbol, cutoff_date) ==
    IF entries = << >> THEN << >>
    ELSE LET p == process_transaction(Head(entries), symbol, cutoff_date)
         IN (IF p.r = "rec" THEN <<p.rec>> ELSE << >>)
            \o Normalized(Tail(entries), symbol, cutoff_date)

RECURSIVE NormalizedAll(_, _)
NormalizedAll(raw, cutoff_date) ==
    IF raw = << >> THEN << >>
    ELSE Normalized(Get(Head(raw).data.d, "data", << >>), Head(raw).symbol, cutoff_date)
         \o NormalizedAll(Tail(raw), cutoff_date)

NormalizesItem(item) == process_item(item, "gainers", None).r = "rec"

C15_EntryIsolation ==
    Transformed =>
        /\ pc # "Crashed"
        /\ ~Happened("raise", "Transforming")
        /\ IsETL => processed_data = NormalizedAll(raw_data, CutoffDate(now))
        /\ IsMovers =>
              \A k \in DOMAIN Categories :
                 Len(processed_data[Categories[k]])
                    = Cardinality({i \in DOMAIN EntryLists[k] : NormalizesItem(EntryLists[k][i])})
(***************************************************************************)
(* C16.  Upsert frame rule: when the key (symbol, date, executive, shares,  *)
(* price) of an inserted record equals that of an existing row, the row     *)
(* count is unchanged, the row keeps its key and takes the record's title,  *)
(* type and transaction, and the rows with other keys are untouched.        *)
(***************************************************************************)
\* The step is one INSERT of _insert_data_to_db that succeeded.
InsertedInsider == pc = "insert" /\ IsETL /\ trace' = Append(trace, Ev("insert", batch))

SameKey(view, new) == {r \in view.insider : InsiderKey(r) = InsiderKey(new)}

Described(r, new) ==
    [r EXCEPT !.title = new.title, !.type = new.type, !.transaction = new.transaction]

C16_Frame ==
    InsertedInsider =>
        LET new == InsiderRow(processed_data[idx])
            hit == SameKey(tx, new)
        IN hit # {} =>
              /\ Cardinality(tx'.insider) = Cardinality(tx.insider)
              /\ tx'.insider = (tx.insider \ hit) \cup {Described(r, new) : r \in hit}

C16_UpsertFrame == [][C16_Frame]_vars

(***************************************************************************)
(* C17.  Re-running the snapshot pipeline on the same snapshot is safe:     *)
(* after two consecutive successful StockMarketETL loads of the same        *)
(* processed data, stock_movers and stock_metadata are as the first load    *)
(* left them: one row per processed record, one metadata row per stamp.     *)
(***************************************************************************)
LoadedTwice ==
    /\ pc = "Completed" /\ IsMovers
    /\ PrevCompleted("StockMarketETL")
    /\ prev.processed = processed_data

C17_RerunIdempotent ==
    LoadedTwice =>
        /\ db.movers = dbAtLoad.movers
        /\ db.meta = dbAtLoad.meta
        /\ \A c \in CategorySet :
              /\ CatRows(db, c) = RowSet(processed_data[c])
              /\ Cardinality(CatRows(db, c)) = Len(processed_data[c])
        /\ \A m1, m2 \in db.meta : m1.last_updated = m2.last_updated => m1 = m2
        /\ \A r1, r2 \in db.movers : MoverKey(r1) = MoverKey(r2) => r1 = r2

\* The same non-empty snapshot loaded twice.
C17_Witness ==
    /\ LoadedTwice
    /\ processed_data.gainers # << >>
    /\ processed_data.losers # << >>
    /\ prev.before.movers = {}

(***************************************************************************)
(* C18.  A connection failure aborts the load phase before any write: when  *)
(* establishing the connection fails, no table creation, delete, insert,    *)
(* commit or CSV write happens in that run, the store is as load() found    *)
(* it, and load() reports failure.                                          *)
(***************************************************************************)
ConnectFailed == Happened("error", "connect")

Writes == {"create", "delete", "insert", "commit", "csv"}

C18_ConnectAborts ==
    ConnectFailed =>
        /\ \A i \in DOMAIN trace : trace[i].e \notin Writes
        /\ db = dbAtLoad
        /\ csv = 0
        /\ pc \in {"finally", "Failed"}
        /\ pc = "Failed" => trace[Len(trace)] = Ev("failed", "Loading")

\* A run with records to load whose connection could not be established.
C18_Witness ==
    /\ ConnectFailed /\ pc = "Failed"
    /\ ProcessedCount >= 1
    /\ connection = "none"

(***************************************************************************)
(* C19.  The snapshot-file write never blocks or undoes the database write: *)
(* the CSV write is attempted only after every database batch of the run    *)
(* has been committed, no database statement follows it, and whether it     *)
(* succeeds or fails the committed rows stay in the store.                  *)
(***************************************************************************)
CsvAttempted == Happened("csv", "")

AllBatches == IF IsETL THEN {"insider"} ELSE {"metadata"} \cup CategorySet

C19_AfterCommits ==
    CsvAttempted =>
        /\ \A b \in AllBatches :
              \E i \in DOMAIN trace :
                 /\ trace[i] = Ev("commit", b)
                 /\ \A j \in DOMAIN trace : trace[j].e = "csv" => i < j
        /\ \A i, j \in DOMAIN trace :
              (trace[i].e = "csv" /\ i < j)
              => trace[j].e \notin {"delete", "insert", "commit", "rollback"}
        /\ IsETL =>
              \A i \in DOMAIN processed_data :
                 \E r \in db.insider :
                    InsiderKey(r) = InsiderKey(InsiderRow(processed_data[i]))
        /\ IsMovers =>
              /\ \A c \in CategorySet : CatRows(db, c) = RowSet(processed_data[c])
              /\ \E m \in db.meta : m.last_updated = processed_data.metadata.last_updated

C19_Keeps == (pc = "csv" \/ (pc = "finally" /\ CsvAttempted)) => db' = db

C19_CsvAfterDb == []C19_AfterCommits /\ [][C19_Keeps]_vars

\* The CSV write failed after the batches were committed; the rows are there.
C19_Witness ==
    /\ pc = "Crashed" /\ CsvAttempted
    /\ csv < CsvFiles
    /\ db # dbAtLoad
    /\ ProcessedCount >= 1

(***************************************************************************)
(* C20.  Frame of the snapshot replace: no step of _insert_stock_data for   *)
(* category X (its DELETE, its INSERTs, its commit or its rollback) adds,   *)
(* removes or changes a stock_movers row of another category or a row of    *)
(* stock_metadata, in the connection's view or in the store.                *)
(***************************************************************************)
InStockBatch == IsMovers /\ batch \in CategorySet /\ pc \in {"delete", "insert", "commit"}

C20_Step ==
    InStockBatch =>
        /\ \A c \in CategorySet \ {batch} :
              /\ CatRows(tx', c) = CatRows(tx, c)
              /\ CatRows(db', c) = CatRows(db, c)
        /\ tx'.meta = tx.meta
        /\ db'.meta = db.meta
        /\ db'.insider = db.insider

C20_ReplaceFrame == [][C20_Step]_vars

\* The losers batch is about to commit its changes while gainers has rows.
C20_Witness ==
    /\ IsMovers /\ pc = "commit" /\ batch = "losers"
    /\ CatRows(db, "gainers") # {}
    /\ CatRows(tx, "losers") # CatRows(db, "losers")

====
